---------------------------- MODULE Spec2Model ----------------------------
(***************************************************************************)
(* A model of src/app.py: the session registry, the socket rooms and       *)
(* listener sets, the per-client avatar connection, the token refresh      *)
(* loops and the fan-out of a finalized translation.                       *)
(*                                                                         *)
(* Scheduling.  The program is served by socketio.run under eventlet       *)
(* (src/app.py:966-986): every HTTP route and socket event handler runs    *)
(* on the one hub thread and runs to completion, so a handler is one       *)
(* action.  The provider's callbacks (tts_disconnected_cb, recognized_cb)  *)
(* and the two refresh loops run on threads of their own and interleave    *)
(* with the handlers; a handler that reads a field twice that such a       *)
(* thread writes is therefore split at the second read.                    *)
(***************************************************************************)
EXTENDS Integers, Sequences, FiniteSets, TLC

(* ------------------------------ bounds -------------------------------- *)

\* The random source yields the codes of the numbers 0..MaxCode.
MaxCode == 1

\* Socket connection ids (request.sid) are 1..MaxSockets.
MaxSockets == 2

\* At most MaxClients clients are registered.
MaxClients == 2

\* At most MaxSynths synthesizers are ever created.
MaxSynths == 2

\* The token provider issues the tokens 1..MaxToken.
MaxToken == 2

\* At most MaxRecognizers recognizers are ever created.
MaxRecognizers == 2

\* At most MaxFrames audio frames are written to one push stream.
MaxFrames == 2

\* A recognizer delivers the utterances 1..MaxUtterance.
MaxUtterance == 1

(* ------------------------- program constants -------------------------- *)

\* k=6 in random.choices(string.digits, k=6)
CodeLen == 6

\* Python's None, for a handle that holds an object id otherwise.
NoneId == 0

\* string.digits
Digits == 0..9

\* A request that carries no session id (None or ''): `not session_id`.
NoId == <<>>

VARIABLES
    sessions,           \* sessions: code -> Session
    session_listeners,  \* session_listeners: code -> set of sids
    rooms,              \* the socket server's rooms: room -> set of sids
    sockets,            \* the sids of the connected sockets
    last,               \* the latest handler's request, response and emits
    joins,              \* history: per session, who called joinSession
                        \* with success since it was created, whether a
                        \* listener of it has left since, and whether it
                        \* has been ended
    client_contexts,    \* client_contexts: client id -> ClientContext, in
                        \* the order of insertion
    synths,             \* the provider's side of every SpeechSynthesizer
                        \* created: its owner, its Connection, a pending
                        \* Disconnected event
    hub,                \* the handler the hub thread is in the middle of
    config,             \* the environment variables read at import
    speech_token,       \* the global speech_token
    ice_token,          \* the global ice_token
    refresher,          \* per token kind, where its refresh thread is
    lastGood,           \* history: per token kind, the value of the latest
                        \* fetch that succeeded
    recognizers,        \* the provider's side of every TranslationRecognizer
                        \* created, with what its callbacks closed over
    fan                 \* the recognized_cb in progress on the provider's
                        \* thread

sessVars == <<sessions, session_listeners, rooms, sockets, joins>>
avatarVars == <<client_contexts, synths, hub>>
tokenVars == <<config, speech_token, ice_token, refresher, lastGood>>
pipeVars == <<recognizers, fan>>

vars == <<sessions, session_listeners, rooms, sockets, last, joins,
          client_contexts, synths, hub,
          config, speech_token, ice_token, refresher, lastGood,
          recognizers, fan>>

(* ------------------------------ helpers ------------------------------- *)

Sids == 1..MaxSockets

\* The client ids a request may carry; those above Len(client_contexts)
\* are the ids of no client.
ClientIds == 1..MaxClients

\* The hub thread is between two handlers.
HubIdle == hub.op = "idle"

Pow10(e) == IF e = 0 THEN 1
            ELSE IF e = 1 THEN 10
            ELSE IF e = 2 THEN 100
            ELSE IF e = 3 THEN 1000
            ELSE IF e = 4 THEN 10000
            ELSE 100000

\* ''.join(k digits): the decimal digits of n, zero-padded to k places.
JoinDigits(n, k) == [i \in 1..k |-> (n \div Pow10(k - i)) % 10]

\* What random.choices(string.digits, k=6) may return here.
RandomCodes == {JoinDigits(n, CodeLen) : n \in 0..MaxCode}

\* The ids a request may carry: a code, or none.
RequestIds == RandomCodes \cup {NoId}

\* d without the key k (del d[k]).
Del(d, k) == [x \in (DOMAIN d) \ {k} |-> d[x]]

\* d with d[k] = v (insert or overwrite).
Put(d, k, v) == [x \in (DOMAIN d) \cup {k} |-> IF x = k THEN v ELSE d[x]]

\* The elements of a finite set, one after the other.
RECURSIVE SetToSeq(_)
SetToSeq(S) ==
    IF S = {} THEN <<>>
    ELSE LET x == CHOOSE y \in S : TRUE IN <<x>> \o SetToSeq(S \ {x})

\* One emit: the event, the connections it is delivered to, its payload.
Emit(event, to, sessionId, count) ==
    [event |-> event, to |-> to, sessionId |-> sessionId, count |-> count]

(* --------------------------- session registry ------------------------- *)

\* generateSessionCode without its test `code not in sessions`.
generateSessionCode_unchecked(sess) == RandomCodes

\* generateSessionCode: the codes the rejection loop may return.
generateSessionCode(sess) == {code \in RandomCodes : code \notin DOMAIN sess}

\* The history of a session nobody has joined: just created, or ended.
NeverJoined(ended) == [sids |-> {}, left |-> FALSE, ended |-> ended]

\* The Session createSession stores (the fields the handlers change).
NewSession == [active |-> FALSE, speaker_client_id |-> NoneId]

\* POST /api/createSession.  valid: the body is a JSON object.
createSession(valid) ==
    /\ HubIdle
    /\ UNCHANGED <<avatarVars, tokenVars, pipeVars>>
    /\ \E code \in generateSessionCode(sessions) :
           IF valid
           THEN /\ sessions' = Put(sessions, code, NewSession)
                /\ session_listeners' = Put(session_listeners, code, {})
                /\ last' = [op |-> "createSession", status |-> 200,
                            sessionId |-> code, pre |-> sessions,
                            emits |-> <<>>]
                /\ joins' = Put(joins, code, NeverJoined(FALSE))
                /\ UNCHANGED <<rooms, sockets>>
           ELSE /\ last' = [op |-> "createSession", status |-> 400,
                            sessionId |-> NoId, pre |-> sessions,
                            emits |-> <<>>]
                /\ UNCHANGED <<sessions, session_listeners, rooms, sockets, joins>>

\* len(session_listeners.get(session_id, set()))
ListenerCount(id) ==
    IF id \in DOMAIN session_listeners
    THEN Cardinality(session_listeners[id]) ELSE 0

\* The status of GET /api/getSession/<id> in the current state.
getSessionStatus(id) == IF id \notin DOMAIN sessions THEN 404 ELSE 200

\* getSession that reads the listener set with setdefault.
getSession_setdefault(id) ==
    /\ HubIdle
    /\ UNCHANGED <<avatarVars, tokenVars, pipeVars>>
    /\ /\ last' = [op |-> "getSession", status |-> getSessionStatus(id),
                   sessionId |-> id,
                   listenerCount |-> ListenerCount(id), emits |-> <<>>,
                   pre |-> [sessions |-> sessions,
                            session_listeners |-> session_listeners,
                            rooms |-> rooms]]
       /\ session_listeners' = IF id \in DOMAIN session_listeners
                               THEN session_listeners
                               ELSE Put(session_listeners, id, {})
       /\ UNCHANGED <<sessions, rooms, sockets, joins>>

\* GET /api/getSession/<session_id>
getSession(id) ==
    /\ HubIdle
    /\ UNCHANGED <<avatarVars, tokenVars, pipeVars>>
    /\ /\ last' = [op |-> "getSession", status |-> getSessionStatus(id),
                   sessionId |-> id,
                   listenerCount |-> ListenerCount(id), emits |-> <<>>,
                   pre |-> [sessions |-> sessions,
                            session_listeners |-> session_listeners,
                            rooms |-> rooms]]
       /\ UNCHANGED <<sessions, session_listeners, rooms, sockets, joins>>

\* The members of a room an emit to it is delivered to.
RoomMembers(room) == rooms[room]

\* endSession that notifies the room and forgets `del sessions[session_id]`.
endSession_keeps(id, emitRaises) ==
    /\ HubIdle
    /\ UNCHANGED <<avatarVars, tokenVars, pipeVars>>
    /\ /\ id \in DOMAIN sessions
       /\ ~emitRaises
       /\ session_listeners' = Del(session_listeners, id)
       /\ last' = [op |-> "endSession", status |-> 200, sessionId |-> id,
                   room |-> RoomMembers(id),
                   emits |-> <<Emit("sessionEnded", RoomMembers(id), id, 0)>>]
       /\ joins' = Put(joins, id, NeverJoined(TRUE))
       /\ UNCHANGED <<sessions, rooms, sockets>>

\* endSession that deletes the session and leaves its listener set.
endSession_keeps_listeners(id, emitRaises) ==
    /\ HubIdle
    /\ UNCHANGED <<avatarVars, tokenVars, pipeVars>>
    /\ /\ id \in DOMAIN sessions
       /\ ~emitRaises
       /\ sessions' = Del(sessions, id)
       /\ last' = [op |-> "endSession", status |-> 200, sessionId |-> id,
                   room |-> RoomMembers(id),
                   emits |-> <<Emit("sessionEnded", RoomMembers(id), id, 0)>>]
       /\ joins' = Put(joins, id, NeverJoined(TRUE))
       /\ UNCHANGED <<session_listeners, rooms, sockets>>

\* endSession that also unlinks the clients of the session.
endSession_unlinks(id, emitRaises) ==
    /\ HubIdle
    /\ id \in DOMAIN sessions
    /\ ~emitRaises
    /\ sessions' = Del(sessions, id)
    /\ session_listeners' = Del(session_listeners, id)
    /\ client_contexts' =
           [c \in DOMAIN client_contexts |->
               IF client_contexts[c].session_id = id
               THEN [client_contexts[c] EXCEPT !.session_id = NoId]
               ELSE client_contexts[c]]
    /\ last' = [op |-> "endSession", status |-> 200, sessionId |-> id,
                room |-> RoomMembers(id),
                emits |-> <<Emit("sessionEnded", RoomMembers(id), id, 0)>>]
    /\ joins' = Put(joins, id, NeverJoined(TRUE))
    /\ UNCHANGED <<rooms, sockets, synths, hub, tokenVars, pipeVars>>

\* POST /api/endSession.  emitRaises: socketio.emit raises.
endSession(id, emitRaises) ==
    /\ HubIdle
    /\ UNCHANGED <<avatarVars, tokenVars, pipeVars>>
    /\ IF id \notin DOMAIN sessions
       THEN /\ last' = [op |-> "endSession", status |-> 404, sessionId |-> id,
                        room |-> {}, emits |-> <<>>]
            /\ UNCHANGED <<sessions, session_listeners, rooms, sockets, joins>>
       ELSE IF emitRaises
       THEN /\ last' = [op |-> "endSession", status |-> 400, sessionId |-> id,
                        room |-> RoomMembers(id), emits |-> <<>>]
            /\ UNCHANGED <<sessions, session_listeners, rooms, sockets, joins>>
       ELSE /\ sessions' = Del(sessions, id)
            /\ session_listeners' = Del(session_listeners, id)
            /\ last' = [op |-> "endSession", status |-> 200, sessionId |-> id,
                        room |-> RoomMembers(id),
                        emits |-> <<Emit("sessionEnded", RoomMembers(id), id, 0)>>]
            /\ joins' = Put(joins, id, NeverJoined(TRUE))
            /\ UNCHANGED <<rooms, sockets>>

(* ------------------------------ sockets ------------------------------- *)

\* @socketio.on('connect')
handle_connect(sid) ==
    /\ HubIdle
    /\ UNCHANGED <<avatarVars, tokenVars, pipeVars>>
    /\ /\ sid \notin sockets
       /\ sockets' = sockets \cup {sid}
       /\ last' = [op |-> "connect", sid |-> sid, emits |-> <<>>]
       /\ UNCHANGED <<sessions, session_listeners, rooms, joins>>

\* The sessions whose listener set holds sid, one after the other.
RECURSIVE ScanListeners(_, _)
ScanListeners(ls, sid) ==
    IF DOMAIN ls = {} THEN <<>>
    ELSE LET id == CHOOSE x \in DOMAIN ls : TRUE
         IN  (IF sid \in ls[id] THEN <<id>> ELSE <<>>)
             \o ScanListeners(Del(ls, id), sid)

\* handle_disconnect that emits the count it read before the removal.
handle_disconnect_stale(sid) ==
    /\ HubIdle
    /\ UNCHANGED <<avatarVars, tokenVars, pipeVars>>
    /\ /\ sid \in sockets
       /\ session_listeners' =
            [id \in DOMAIN session_listeners |-> session_listeners[id] \ {sid}]
       /\ last' = [op |-> "disconnect", sid |-> sid, pre |-> session_listeners,
                   emits |-> LET hit == SetToSeq({id \in DOMAIN session_listeners :
                                                      sid \in session_listeners[id]})
                             IN  [i \in 1..Len(hit) |->
                                   Emit("listenerCountUpdated",
                                        RoomMembers(hit[i]) \ {sid}, hit[i],
                                        Cardinality(session_listeners[hit[i]]))]]
       /\ rooms' = [r \in DOMAIN rooms |-> rooms[r] \ {sid}]
       /\ sockets' = sockets \ {sid}
       /\ joins' = [id \in DOMAIN joins |->
                       IF id \in DOMAIN session_listeners /\ sid \in session_listeners[id]
                       THEN [joins[id] EXCEPT !.left = TRUE] ELSE joins[id]]
       /\ UNCHANGED sessions

\* @socketio.on('disconnect'): the handler, then the server drops the sid
\* from every room.
handle_disconnect(sid) ==
    /\ HubIdle
    /\ UNCHANGED <<avatarVars, tokenVars, pipeVars>>
    /\ /\ sid \in sockets
       /\ LET hit == ScanListeners(session_listeners, sid)
          IN  /\ session_listeners' =
                   [id \in DOMAIN session_listeners |-> session_listeners[id] \ {sid}]
              /\ last' = [op |-> "disconnect", sid |-> sid,
                          pre |-> session_listeners,
                          emits |-> [i \in 1..Len(hit) |->
                              Emit("listenerCountUpdated",
                                   RoomMembers(hit[i]) \ {sid}, hit[i],
                                   Cardinality(session_listeners[hit[i]] \ {sid}))]]
       /\ rooms' = [r \in DOMAIN rooms |-> rooms[r] \ {sid}]
       /\ sockets' = sockets \ {sid}
       /\ joins' = [id \in DOMAIN joins |->
                       IF id \in DOMAIN session_listeners /\ sid \in session_listeners[id]
                       THEN [joins[id] EXCEPT !.left = TRUE] ELSE joins[id]]
       /\ UNCHANGED sessions

\* @socketio.on('join')
handle_join(sid, room) ==
    /\ HubIdle
    /\ UNCHANGED <<avatarVars, tokenVars, pipeVars>>
    /\ /\ sid \in sockets
       /\ rooms' = [rooms EXCEPT ![room] = @ \cup {sid}]
       /\ last' = [op |-> "join", sid |-> sid, room |-> room, emits |-> <<>>]
       /\ UNCHANGED <<sessions, session_listeners, sockets, joins>>

\* handle_join_session whose guard is `not session_id` alone.
handle_join_session_unguarded(sid, id) ==
    /\ HubIdle
    /\ UNCHANGED <<avatarVars, tokenVars, pipeVars>>
    /\ /\ sid \in sockets
       /\ id # NoId
       /\ LET ls == IF id \notin DOMAIN session_listeners
                    THEN Put(session_listeners, id, {})
                    ELSE session_listeners
              after == Put(ls, id, ls[id] \cup {sid})
              room == rooms[id] \cup {sid}
          IN  /\ rooms' = [rooms EXCEPT ![id] = room]
              /\ session_listeners' = after
              /\ last' = [op |-> "joinSession", sid |-> sid, sessionId |-> id,
                          ok |-> id \in DOMAIN sessions,
                          pre |-> session_listeners, preRooms |-> rooms,
                          emits |-> <<Emit("error", {sid}, NoId, 0)>>]
              /\ joins' = IF id \in DOMAIN joins
                          THEN [joins EXCEPT ![id].sids = @ \cup {sid}] ELSE joins
              /\ UNCHANGED <<sessions, sockets>>

\* joinSession that counts the calls, not the connections.
handle_join_session_recounts(sid, id) ==
    /\ HubIdle
    /\ sid \in sockets
    /\ id \in DOMAIN sessions
    /\ id \in DOMAIN session_listeners
    /\ LET n == Cardinality(session_listeners[id]) + 1
           room == rooms[id] \cup {sid}
       IN  /\ rooms' = [rooms EXCEPT ![id] = room]
           /\ session_listeners' =
                  [session_listeners EXCEPT ![id] = @ \cup {sid}]
           /\ last' = [op |-> "joinSession", sid |-> sid, sessionId |-> id,
                       ok |-> TRUE,
                       pre |-> session_listeners, preRooms |-> rooms,
                       emits |-> <<Emit("listenerJoined", room, id, n),
                                   Emit("listenerCountUpdated", room, id, n)>>]
           /\ joins' = [joins EXCEPT ![id].sids = @ \cup {sid}]
    /\ UNCHANGED <<sessions, sockets, avatarVars, tokenVars, pipeVars>>

\* @socketio.on('joinSession')
handle_join_session(sid, id) ==
    /\ HubIdle
    /\ UNCHANGED <<avatarVars, tokenVars, pipeVars>>
    /\ /\ sid \in sockets
       /\ IF id = NoId \/ id \notin DOMAIN sessions
          THEN /\ last' = [op |-> "joinSession", sid |-> sid, sessionId |-> id,
                           ok |-> FALSE,
                           pre |-> session_listeners, preRooms |-> rooms,
                           emits |-> <<Emit("error", {sid}, NoId, 0)>>]
               /\ UNCHANGED <<sessions, session_listeners, rooms, sockets, joins>>
          ELSE LET ls == IF id \notin DOMAIN session_listeners
                         THEN Put(session_listeners, id, {})
                         ELSE session_listeners
                   after == Put(ls, id, ls[id] \cup {sid})
                   room == rooms[id] \cup {sid}
               IN  /\ rooms' = [rooms EXCEPT ![id] = room]
                   /\ session_listeners' = after
                   /\ last' = [op |-> "joinSession", sid |-> sid, sessionId |-> id,
                               ok |-> TRUE,
                               pre |-> session_listeners, preRooms |-> rooms,
                               emits |-> <<Emit("listenerJoined", room, id,
                                                Cardinality(after[id])),
                                           Emit("listenerCountUpdated", room, id,
                                                Cardinality(after[id]))>>]
                   /\ joins' = [joins EXCEPT ![id].sids = @ \cup {sid}]
                   /\ UNCHANGED <<sessions, sockets>>

(* --------------------------- token refresh ---------------------------- *)

TokenKinds == {"speech", "ice"}

\* The tokens a provider may issue.
Tokens == 1..MaxToken

\* What one acquisition may end in: a value, a status that is not 200, or
\* an exception.
FetchOutcomes == {"ok", "status", "exception"}

\* Lines 958-963: the speech thread is started only with token
\* authentication or a private endpoint; the ICE thread always.
ThreadStarted(kind) ==
    \/ kind = "ice"
    \/ config.enable_token_auth_for_speech
    \/ config.speech_private_endpoint

\* The outcomes the acquisition of `kind` can end in: with a private
\* endpoint the speech token comes from credential.get_token, which
\* returns or raises; every other fetch is an HTTP request.
OutcomesOf(kind) ==
    IF kind = "speech" /\ config.speech_private_endpoint
    THEN {"ok", "exception"} ELSE FetchOutcomes

\* A refresh loop whose `except Exception` is missing: the thread dies.
AfterIteration_dies(outcome) == IF outcome = "exception" THEN "dead" ELSE "sleep"

\* Where the loop is after one iteration: at time.sleep(540), whatever the
\* outcome of the try block.
AfterIteration(outcome) == "sleep"

\* A refresh that publishes None when the fetch fails.
Published_clears(old, outcome, token) == IF outcome = "ok" THEN token ELSE NoneId

\* The value of the global after one iteration: assigned on success only.
Published(old, outcome, token) == IF outcome = "ok" THEN token ELSE old

\* The history after one iteration.
Refreshed(kind, outcome, token) ==
    /\ refresher' = [refresher EXCEPT
            ![kind].pc = AfterIteration(outcome),
            ![kind].fails = IF outcome = "ok" THEN 0
                            ELSE IF @ < 3 THEN @ + 1 ELSE @]
    /\ lastGood' = [lastGood EXCEPT ![kind] = IF outcome = "ok" THEN token ELSE @]

\* One iteration of refreshSpeechToken, up to the sleep.
refreshSpeechToken(outcome, token) ==
    /\ UNCHANGED <<sessVars, avatarVars, pipeVars, last>>
    /\ refresher["speech"].pc = "fetch"
    /\ outcome \in OutcomesOf("speech")
    /\ speech_token' = Published(speech_token, outcome, token)
    /\ Refreshed("speech", outcome, token)
    /\ UNCHANGED <<config, ice_token>>

\* One iteration of refreshIceToken, up to the sleep.
refreshIceToken(outcome, token) ==
    /\ UNCHANGED <<sessVars, avatarVars, pipeVars, last>>
    /\ refresher["ice"].pc = "fetch"
    /\ outcome \in OutcomesOf("ice")
    /\ ice_token' = Published(ice_token, outcome, token)
    /\ Refreshed("ice", outcome, token)
    /\ UNCHANGED <<config, speech_token>>

\* time.sleep(540) returns.
wake(kind) ==
    /\ UNCHANGED <<sessVars, avatarVars, pipeVars, last>>
    /\ refresher[kind].pc = "sleep"
    /\ refresher' = [refresher EXCEPT ![kind].pc = "fetch"]
    /\ UNCHANGED <<config, speech_token, ice_token, lastGood>>

\* GET /api/getSpeechToken
getSpeechToken ==
    /\ HubIdle
    /\ last' = [op |-> "getSpeechToken", status |-> 200, body |-> speech_token,
                emits |-> <<>>]
    /\ UNCHANGED <<sessVars, avatarVars, tokenVars, pipeVars>>

\* GET /api/getIceToken, with no customized ICE server in the environment.
\* Line 435: the token built from the environment's ICE server, which no
\* provider issued.
custom_ice_token == MaxToken + 1

getIceToken ==
    /\ HubIdle
    /\ last' = [op |-> "getIceToken", status |-> 200,
                body |-> IF config.ice_server_override
                         THEN custom_ice_token ELSE ice_token,
                emits |-> <<>>]
    /\ UNCHANGED <<sessVars, avatarVars, tokenVars, pipeVars>>

(* ---------------------------- client registry ------------------------ *)

\* The context initializeClient installs (tts_voice and
\* custom_voice_endpoint_id are never read by a modelled branch).
NewContext ==
    [speech_synthesizer |-> NoneId,
     speech_synthesizer_connection |-> NoneId,
     speech_synthesizer_connected |-> FALSE,
     translation_recognizer |-> NoneId,
     session_id |-> NoId,
     push_audio_stream |-> NoneId]

\* client_contexts.get(client_id) finds a context.
Known(c) == c \in DOMAIN client_contexts

\* initializeClient, as the page routes call it.
initializeClient ==
    /\ HubIdle
    /\ Len(client_contexts) < MaxClients
    /\ client_contexts' = Append(client_contexts, NewContext)
    /\ last' = [op |-> "initializeClient", client |-> Len(client_contexts) + 1,
                emits |-> <<>>]
    /\ UNCHANGED <<sessVars, synths, hub, tokenVars, pipeVars>>

(* --------------------------- avatar connector ------------------------- *)

\* The provider's side of a new SpeechSynthesizer of client c; conn is the
\* state of its Connection: "absent" (never made), "new" (made, no media
\* channel yet), "open" (negotiated), "closed".
NewSynth(c, conn) ==
    [owner |-> c, conn |-> conn, cb |-> FALSE,
     ice |-> IF conn = "absent" THEN "none"
             ELSE IF config.ice_server_override THEN "override"
             ELSE "fetched"]

\* connection.close(): the media channel, if open, closes, and the provider
\* may raise the Disconnected event for it.
Closed(k, fires) ==
    [synths EXCEPT ![k].conn = IF @ = "absent" THEN @ ELSE "closed",
                   ![k].cb = @ \/ (fires /\ synths[k].conn = "open")]

\* Lines 570-573 of disconnectAvatarInternal.
ClearSynthesizer(ctx) ==
    [ctx EXCEPT !.speech_synthesizer = NoneId,
                !.speech_synthesizer_connected = FALSE]

\* A handler's response, with the exception that ended it if one did.
Response(op, c, status, error) ==
    [op |-> op, client |-> c, status |-> status, error |-> error,
     emits |-> <<>>]

\* The status a route answers with when connectAvatarInternal or
\* disconnectAvatarInternal raises: both connect routes catch and answer
\* 400; disconnectAvatar catches nothing.
RaisedStatus(op) == IF op = "disconnectAvatar" THEN 500 ELSE 400

\* Lines 133-202 of connectAvatarInternal on the contexts ctxs, with `made`
\* the synthesizers made so far: the new synthesizer is stored, json.loads(ice_token) raises on None, and else
\* the new Connection is stored.
InstallOn(made, ctxs, op, c) ==
    LET k == Len(made) + 1
    IN  IF ice_token = NoneId
        THEN /\ synths' = Append(made, NewSynth(c, "absent"))
             /\ client_contexts' = [ctxs EXCEPT ![c].speech_synthesizer = k]
             /\ hub' = [op |-> "idle"]
             /\ last' = Response(op, c, 400, "TypeError")
        ELSE /\ synths' = Append(made, NewSynth(c, "new"))
             /\ client_contexts' =
                    [ctxs EXCEPT ![c].speech_synthesizer = k,
                                 ![c].speech_synthesizer_connection = k]
             /\ hub' = [op |-> op, client |-> c, pc |-> "negotiate", synth |-> k]
             /\ UNCHANGED last

\* Lines 133-202 with no connection closed before.
Install(ctxs, op, c) == InstallOn(synths, ctxs, op, c)

\* Lines 133-202 after the old connection k was closed.
InstallAfterClose(ctxs, op, c, k, fires) == InstallOn(Closed(k, fires), ctxs, op, c)

\* Lines 94-100 of connectAvatarInternal on the contexts ctxs of a known
\* client, up to the second read of the connection handle in
\* disconnectAvatarInternal.
connectAvatarInternal(ctxs, op, c) ==
    IF ctxs[c].speech_synthesizer # NoneId
    THEN IF ctxs[c].speech_synthesizer_connection # NoneId
         THEN /\ client_contexts' = ctxs
              /\ hub' = [op |-> op, client |-> c, pc |-> "close"]
              /\ UNCHANGED <<synths, last>>
         ELSE Install([ctxs EXCEPT ![c] = ClearSynthesizer(@)], op, c)
    ELSE Install(ctxs, op, c)

\* POST /api/connectAvatar, up to the first wait.
connectAvatar(c) ==
    /\ HubIdle
    /\ Len(synths) < MaxSynths
    /\ IF ~Known(c)
       THEN /\ last' = Response("connectAvatar", c, 404, "none")
            /\ UNCHANGED avatarVars
       ELSE connectAvatarInternal(client_contexts, "connectAvatar", c)
    /\ UNCHANGED <<sessVars, tokenVars, pipeVars>>

\* POST /api/connectListenerAvatar, up to the first wait.
connectListenerAvatar(c, id) ==
    /\ HubIdle
    /\ Len(synths) < MaxSynths
    /\ IF id = NoId \/ id \notin DOMAIN sessions \/ ~Known(c)
       THEN /\ last' = Response("connectListenerAvatar", c, 404, "none")
            /\ UNCHANGED avatarVars
       ELSE connectAvatarInternal(
                [client_contexts EXCEPT ![c].session_id = id],
                "connectListenerAvatar", c)
    /\ UNCHANGED <<sessVars, tokenVars, pipeVars>>

\* Lines 203-217 of connectAvatarInternal: the flag is set, then the empty
\* text is spoken and the result decides.
negotiate(result) ==
    /\ hub.op # "idle" /\ hub.pc = "negotiate"
    /\ client_contexts' =
           [client_contexts EXCEPT ![hub.client].speech_synthesizer_connected = TRUE]
    /\ synths' = IF result = "completed"
                 THEN [synths EXCEPT ![hub.synth].conn = "open"] ELSE synths
    /\ last' = IF result = "completed"
               THEN Response(hub.op, hub.client, 200, "none")
               ELSE Response(hub.op, hub.client, 400, "canceled")
    /\ hub' = [op |-> "idle"]
    /\ UNCHANGED <<sessVars, tokenVars, pipeVars>>

\* disconnectAvatarInternal from its second read of the connection handle
\* (line 567) on; a connect goes on to install the new synthesizer.
close(fires) ==
    /\ hub.op # "idle" /\ hub.pc = "close"
    /\ LET c == hub.client
           k == client_contexts[c].speech_synthesizer_connection
       IN  IF k = NoneId
           THEN /\ last' = Response(hub.op, c, RaisedStatus(hub.op), "AttributeError")
                /\ hub' = [op |-> "idle"]
                /\ UNCHANGED <<client_contexts, synths>>
           ELSE LET ctxs == [client_contexts EXCEPT ![c] = ClearSynthesizer(
                                [@ EXCEPT !.speech_synthesizer_connection = NoneId])]
                IN  IF hub.op = "disconnectAvatar"
                    THEN /\ synths' = Closed(k, fires)
                         /\ client_contexts' = ctxs
                         /\ hub' = [op |-> "idle"]
                         /\ last' = Response(hub.op, c, 200, "none")
                    ELSE InstallAfterClose(ctxs, hub.op, c, k, fires)
    /\ UNCHANGED <<sessVars, tokenVars, pipeVars>>

\* POST /api/disconnectAvatar, up to the second read of the connection
\* handle.
disconnectAvatar(c) ==
    /\ HubIdle
    /\ IF ~Known(c)
       THEN /\ last' = Response("disconnectAvatar", c, 200, "none")
            /\ UNCHANGED avatarVars
       ELSE IF client_contexts[c].speech_synthesizer_connection # NoneId
       THEN /\ hub' = [op |-> "disconnectAvatar", client |-> c, pc |-> "close"]
            /\ UNCHANGED <<client_contexts, synths, last>>
       ELSE /\ client_contexts' = [client_contexts EXCEPT ![c] = ClearSynthesizer(@)]
            /\ last' = Response("disconnectAvatar", c, 200, "none")
            /\ UNCHANGED <<synths, hub>>
    /\ UNCHANGED <<sessVars, tokenVars, pipeVars>>

\* tts_disconnected_cb, on the provider's thread, for the Connection of
\* synthesizer k: it writes the context its closure holds.
tts_disconnected_cb(k) ==
    /\ k \in DOMAIN synths
    /\ synths[k].cb
    /\ synths' = [synths EXCEPT ![k].cb = FALSE]
    /\ client_contexts' =
           [client_contexts EXCEPT
                ![synths[k].owner].speech_synthesizer_connection = NoneId,
                ![synths[k].owner].speech_synthesizer_connected = FALSE]
    /\ UNCHANGED <<sessVars, hub, tokenVars, pipeVars, last>>

\* The avatar service drops the open media channel of synthesizer k and
\* raises the Disconnected event.
provider_drop(k) ==
    /\ k \in DOMAIN synths
    /\ synths[k].conn = "open"
    /\ synths' = [synths EXCEPT ![k].conn = "closed", ![k].cb = TRUE]
    /\ UNCHANGED <<sessVars, client_contexts, hub, tokenVars, pipeVars, last>>

\* GET /api/getStatus
getStatus(c) ==
    /\ HubIdle
    /\ last' = IF ~Known(c)
               THEN [op |-> "getStatus", client |-> c, status |-> 404,
                     emits |-> <<>>]
               ELSE [op |-> "getStatus", client |-> c, status |-> 200,
                     speechSynthesizerConnected |->
                         client_contexts[c].speech_synthesizer_connected,
                     emits |-> <<>>]
    /\ UNCHANGED <<sessVars, avatarVars, tokenVars, pipeVars>>

\* POST /api/speak (lines 585-613).  result: how speak_ssml_async ended.
speak(c, result) ==
    /\ HubIdle
    /\ last' = IF ~Known(c)
               THEN Response("speak", c, 404, "none")
               ELSE IF client_contexts[c].speech_synthesizer = NoneId
               THEN Response("speak", c, 400, "not connected")
               ELSE IF result = "completed"
               THEN Response("speak", c, 200, "none")
               ELSE Response("speak", c, 400, result)
    /\ UNCHANGED <<sessVars, avatarVars, tokenVars, pipeVars>>

(* ------------------------- translation pipeline ----------------------- *)

\* The provider's side of a new TranslationRecognizer whose callbacks
\* closed over client c and session id, with the PushAudioInputStream made
\* for it: "none" (microphone mode), "open", "closed", and the frames
\* written to it.
NewRecognizer(c, id, running, streaming) ==
    [client |-> c, session_id |-> id, running |-> running,
     stream |-> IF streaming THEN "open" ELSE "none", frames |-> 0]

\* A start or stop route's response, with the state it was called in.
PipeResponse(op, c, id, status, error) ==
    [op |-> op, client |-> c, sessionId |-> id, status |-> status,
     error |-> error, emits |-> <<>>,
     pre |-> [sessions |-> sessions, client_contexts |-> client_contexts,
              recognizers |-> recognizers]]

\* The provider's side after stop_continuous_recognition() on recognizer r
\* and close() on push stream p (NoneId: not called).
Stopped(r, p) ==
    [k \in DOMAIN recognizers |->
        [recognizers[k] EXCEPT
            !.running = IF k = r THEN FALSE ELSE @,
            !.stream = IF k = p THEN "closed" ELSE @]]

\* startTranslationInternal for a known client c (lines 679-825), on the
\* contexts ctxs.  raises: the provider raises when recognition is started.
\* Line 810 overwrites the recognition handle: the recognizer it held is
\* never stopped by the code, and whether the provider ends it when its
\* last reference goes (released) is the provider's choice.
startTranslationInternal(ctxs, op, c, id, streaming, raises) ==
    LET r == Len(recognizers) + 1
        old == ctxs[c].translation_recognizer
    IN  /\ \E released \in IF old # NoneId /\ ~raises THEN BOOLEAN ELSE {FALSE} :
               recognizers' =
                   Append(IF released THEN Stopped(old, NoneId) ELSE recognizers,
                          NewRecognizer(c, id, ~raises, streaming))
        /\ client_contexts' = [ctxs EXCEPT
               ![c].push_audio_stream = IF streaming THEN r ELSE @,
               ![c].translation_recognizer = IF raises THEN @ ELSE r]
        /\ last' = IF raises
                   THEN PipeResponse(op, c, id, 400, "provider")
                   ELSE PipeResponse(op, c, id, 200, "none")

\* startTranslation that links the client to the session before it looks
\* the session up.
startTranslation_links_first(c, id, streaming, raises) ==
    /\ HubIdle
    /\ Len(recognizers) < MaxRecognizers
    /\ IF ~Known(c)
       THEN /\ last' = PipeResponse("startTranslation", c, id, 404, "none")
            /\ UNCHANGED <<sessions, client_contexts, recognizers>>
       ELSE IF id = NoId \/ id \notin DOMAIN sessions
       THEN /\ client_contexts' = [client_contexts EXCEPT ![c].session_id = id]
            /\ last' = PipeResponse("startTranslation", c, id, 404, "none")
            /\ UNCHANGED <<sessions, recognizers>>
       ELSE /\ sessions' = [sessions EXCEPT ![id].active = TRUE,
                                            ![id].speaker_client_id = c]
            /\ startTranslationInternal(
                   [client_contexts EXCEPT ![c].session_id = id],
                   "startTranslation", c, id, streaming, raises)
    /\ UNCHANGED <<session_listeners, rooms, sockets, joins, synths, hub,
                   tokenVars, fan>>

\* POST /api/startTranslation with a ClientId.  streaming: useStreaming.
startTranslation(c, id, streaming, raises) ==
    /\ HubIdle
    /\ Len(recognizers) < MaxRecognizers
    /\ IF id = NoId \/ id \notin DOMAIN sessions \/ ~Known(c)
       THEN /\ last' = PipeResponse("startTranslation", c, id, 404, "none")
            /\ UNCHANGED <<sessions, client_contexts, recognizers>>
       ELSE /\ sessions' = [sessions EXCEPT ![id].active = TRUE,
                                            ![id].speaker_client_id = c]
            /\ startTranslationInternal(
                   [client_contexts EXCEPT ![c].session_id = id],
                   "startTranslation", c, id, streaming, raises)
    /\ UNCHANGED <<session_listeners, rooms, sockets, joins, synths, hub,
                   tokenVars, fan>>

\* POST /api/translateSpeak (legacy route): no session, microphone mode.
translateSpeak(c, raises) ==
    /\ HubIdle
    /\ Len(recognizers) < MaxRecognizers
    /\ IF ~Known(c)
       THEN /\ last' = PipeResponse("translateSpeak", c, NoId, 404, "none")
            /\ UNCHANGED <<client_contexts, recognizers>>
       ELSE startTranslationInternal(client_contexts, "translateSpeak",
                                     c, NoId, FALSE, raises)
    /\ UNCHANGED <<sessVars, synths, hub, tokenVars, fan>>

\* A release that also marks the avatar as not connected.
Released_and_idle(ctx) ==
    [ctx EXCEPT !.translation_recognizer = NoneId,
                !.push_audio_stream = NoneId,
                !.speech_synthesizer_connected = FALSE]

\* Lines 838-850 of stopTranslation on a context: both handles released.
Released(ctx) ==
    [ctx EXCEPT !.translation_recognizer = NoneId,
                !.push_audio_stream = NoneId]

\* stopTranslation that leaves the push audio stream alone.
stopTranslation_keeps_stream(c, raises) ==
    /\ HubIdle
    /\ IF ~Known(c)
       THEN /\ last' = PipeResponse("stopTranslation", c, NoId, 404, "none")
            /\ UNCHANGED <<client_contexts, recognizers>>
       ELSE LET r == client_contexts[c].translation_recognizer
            IN  /\ recognizers' = Stopped(r, NoneId)
                /\ client_contexts' = [client_contexts EXCEPT
                                          ![c].translation_recognizer = NoneId]
                /\ last' = PipeResponse("stopTranslation", c, NoId, 200, "none")
    /\ UNCHANGED <<sessVars, synths, hub, tokenVars, fan>>

\* stopTranslation that also marks the client's session as not active.
stopTranslation_deactivates(c, raises) ==
    /\ HubIdle
    /\ Known(c)
    /\ ~raises
    /\ recognizers' = Stopped(client_contexts[c].translation_recognizer,
                              client_contexts[c].push_audio_stream)
    /\ client_contexts' = [client_contexts EXCEPT ![c] = Released(@)]
    /\ sessions' = [id \in DOMAIN sessions |->
                       IF id = client_contexts[c].session_id
                       THEN [sessions[id] EXCEPT !.active = FALSE]
                       ELSE sessions[id]]
    /\ last' = PipeResponse("stopTranslation", c, NoId, 200, "none")
    /\ UNCHANGED <<session_listeners, rooms, sockets, joins, synths, hub,
                   tokenVars, fan>>

\* POST /api/stopTranslation.  raises: stop_continuous_recognition raises.
stopTranslation(c, raises) ==
    /\ HubIdle
    /\ IF ~Known(c)
       THEN /\ last' = PipeResponse("stopTranslation", c, NoId, 404, "none")
            /\ UNCHANGED <<client_contexts, recognizers>>
       ELSE LET r == client_contexts[c].translation_recognizer
                p == client_contexts[c].push_audio_stream
            IN  IF r # NoneId /\ raises
                THEN /\ last' = PipeResponse("stopTranslation", c, NoId,
                                             400, "provider")
                     /\ UNCHANGED <<client_contexts, recognizers>>
                ELSE /\ recognizers' = Stopped(r, p)
                     /\ client_contexts' =
                            [client_contexts EXCEPT ![c] = Released(@)]
                     /\ last' = PipeResponse("stopTranslation", c, NoId,
                                             200, "none")
    /\ UNCHANGED <<sessVars, synths, hub, tokenVars, fan>>

\* What handle_audio_data leaves for its sender: nothing is returned and
\* nothing is emitted, whatever happened.
AudioDone(c, wrote) ==
    [op |-> "audioData", client |-> c, wrote |-> wrote, error |-> "none",
     emits |-> <<>>,
     pre |-> [sessions |-> sessions, session_listeners |-> session_listeners,
              client_contexts |-> client_contexts,
              recognizers |-> recognizers]]

\* handle_audio_data that answers an unknown client with an error event.
handle_audio_data_reports(c, complete, packs) ==
    /\ HubIdle
    /\ last' = IF complete /\ ~Known(c)
               THEN [AudioDone(c, FALSE) EXCEPT !.error = "Client not found"]
               ELSE AudioDone(c, FALSE)
    /\ UNCHANGED <<sessVars, avatarVars, tokenVars, pipeVars>>

\* @socketio.on('audioData').  complete: sessionId, clientId and audio are
\* all there and the client id parses; packs: struct.pack takes the frame.
handle_audio_data(c, complete, packs) ==
    /\ HubIdle
    /\ LET p == IF complete /\ Known(c)
                THEN client_contexts[c].push_audio_stream ELSE NoneId
       IN  IF p # NoneId /\ packs
           THEN /\ recognizers[p].frames < MaxFrames
                /\ recognizers' = [recognizers EXCEPT ![p].frames = @ + 1]
                /\ last' = AudioDone(c, TRUE)
           ELSE /\ last' = AudioDone(c, FALSE)
                /\ UNCHANGED recognizers
    /\ UNCHANGED <<sessVars, avatarVars, tokenVars, fan>>

\* The clients with a live avatar connection bound to session id, each
\* with its synthesizer.
LiveListeners(id) ==
    LET live == {c \in DOMAIN client_contexts :
                    /\ client_contexts[c].session_id = id
                    /\ client_contexts[c].speech_synthesizer # NoneId
                    /\ synths[client_contexts[c].speech_synthesizer].conn = "open"}
    IN  [c \in live |-> client_contexts[c].speech_synthesizer]

\* The finalized utterances a recognizer may deliver.
Utterances == 1..MaxUtterance

\* evt.result.translations[target_lang_code] of the utterance u: a text of
\* the provider's, which is not the recognized text.
Translation(u) == MaxUtterance + u

\* recognized_cb of recognizer r is called with a TranslatedSpeech result
\* for utterance u that holds the target language, for a recognizer bound
\* to a session: up to the iterator over client_contexts.items() (lines
\* 721-743).
recognized_cb(r, u) ==
    /\ fan.pc \in {"idle", "done", "ignored"}
    /\ r \in DOMAIN recognizers
    /\ recognizers[r].running
    /\ recognizers[r].session_id # NoId
    /\ fan' = [pc |-> "iterate", rec |-> r,
               session_id |-> recognizers[r].session_id,
               size |-> Len(client_contexts), pos |-> 1,
               attempted |-> {}, listeners_spoken |-> 0,
               K |-> LiveListeners(recognizers[r].session_id),
               raised |-> "none", emits |-> <<>>,
               recognized_text |-> u, translated_text |-> Translation(u)]
    /\ UNCHANGED <<sessVars, avatarVars, tokenVars, recognizers, last>>

\* One of the two events of lines 771-786.
ResultEvent(event, room, source, translated) ==
    [event |-> event, to |-> RoomMembers(room), sessionId |-> room,
     sourceText |-> source, translatedText |-> translated]

\* The two events of lines 771-786, to the room of the session.
Broadcast(room, source, translated) ==
    <<ResultEvent("translationResult", room, source, translated),
      ResultEvent("response", room, source, translated)>>

\* One step of the loop of lines 743-753, with what follows the loop: the
\* iterator raises if the dict changed size; at its end the result is
\* broadcast (emitRaises: socketio.emit raises, which is caught); else the
\* next client is looked at and, if it is of the session and has a
\* synthesizer, spoken to, whatever `result` that ends in.
fan_out(result, emitRaises) ==
    /\ fan.pc = "iterate"
    /\ IF Len(client_contexts) # fan.size
       THEN fan' = [fan EXCEPT !.pc = "done", !.raised = "RuntimeError"]
       ELSE IF fan.pos > fan.size
       THEN fan' = [fan EXCEPT !.pc = "done",
                               !.raised = IF emitRaises THEN "emit" ELSE "none",
                               !.emits = IF emitRaises THEN <<>>
                                         ELSE Broadcast(fan.session_id,
                                                        fan.recognized_text,
                                                        fan.translated_text)]
       ELSE LET ctx == client_contexts[fan.pos]
            IN  IF ctx.session_id = fan.session_id /\ ctx.speech_synthesizer # NoneId
                THEN fan' = [fan EXCEPT
                        !.pos = @ + 1,
                        !.attempted = @ \cup {fan.pos},
                        !.listeners_spoken = IF result = "completed" THEN @ + 1 ELSE @]
                ELSE fan' = [fan EXCEPT !.pos = @ + 1]
    /\ UNCHANGED <<sessVars, avatarVars, tokenVars, recognizers, last>>

\* recognized_cb with a TranslatedSpeech result that holds the target
\* language, for a recognizer started without a session (legacy mode): up
\* to the test of the client's own synthesizer at line 756.
recognized_cb_legacy(r, u) ==
    /\ fan.pc \in {"idle", "done", "ignored"}
    /\ r \in DOMAIN recognizers
    /\ recognizers[r].running
    /\ recognizers[r].session_id = NoId
    /\ fan' = [pc |-> "speak", rec |-> r, session_id |-> NoId,
               client |-> recognizers[r].client,
               checked |-> client_contexts[recognizers[r].client].speech_synthesizer # NoneId,
               attempted |-> {}, raised |-> "none", emits |-> <<>>,
               recognized_text |-> u, translated_text |-> Translation(u)]
    /\ UNCHANGED <<sessVars, avatarVars, tokenVars, recognizers, last>>

\* One of the two events of lines 771-786 in legacy mode, where room_id is
\* str(client_id) (line 769).
ClientRoomEvent(event, c, source, translated) ==
    [event |-> event, room |-> c,
     sourceText |-> source, translatedText |-> translated]

\* Lines 757-790 in legacy mode.  The synthesizer is read again at line
\* 757 (None by now: AttributeError) and speak_ssml_async(ssml).get() ends
\* in `result`; neither is inside a try, so an exception leaves
\* recognized_cb before the broadcast.  emitRaises: socketio.emit raises,
\* which is caught at line 788.
legacy_speak(result, emitRaises) ==
    /\ fan.pc = "speak"
    /\ LET c == fan.client
           gone == client_contexts[c].speech_synthesizer = NoneId
           raised == IF fan.checked /\ gone THEN "AttributeError"
                     ELSE IF fan.checked /\ result = "exception" THEN "speak"
                     ELSE IF emitRaises THEN "emit"
                     ELSE "none"
       IN  fan' = [fan EXCEPT
               !.pc = "done",
               !.attempted = IF fan.checked /\ ~gone THEN {c} ELSE {},
               !.raised = raised,
               !.emits = IF raised = "none"
                         THEN <<ClientRoomEvent("translationResult", c,
                                    fan.recognized_text, fan.translated_text),
                                ClientRoomEvent("response", c,
                                    fan.recognized_text, fan.translated_text)>>
                         ELSE <<>>]
    /\ UNCHANGED <<sessVars, avatarVars, tokenVars, recognizers, last>>

\* The final results a recognizer hands to recognized_cb: the reason of
\* the result and whether its translations hold the target language.
FinalResults == {<<"TranslatedSpeech", TRUE>>, <<"TranslatedSpeech", FALSE>>,
                 <<"RecognizedSpeech", FALSE>>, <<"NoMatch", FALSE>>}

\* The test that lets a result through with the target language left out.
Speakable_any_translated(reason, hasTarget) == reason = "TranslatedSpeech"

\* Lines 722 and 724: the result is acted on.
Speakable(reason, hasTarget) == reason = "TranslatedSpeech" /\ hasTarget

\* recognized_cb (lines 721-792) called by recognizer r with a final result
\* of any reason: a result that is not acted on is at most printed.
on_recognized(r, reason, hasTarget, u) ==
    /\ r \in DOMAIN recognizers
    /\ recognizers[r].running
    /\ IF Speakable(reason, hasTarget)
       THEN IF recognizers[r].session_id # NoId
            THEN recognized_cb(r, u)
            ELSE recognized_cb_legacy(r, u)
       ELSE /\ fan.pc \in {"idle", "done", "ignored"}
            /\ fan' = [pc |-> "ignored", rec |-> r, reason |-> reason]
            /\ UNCHANGED <<sessVars, avatarVars, tokenVars, recognizers, last>>

\* canceled_cb (lines 795-800) called by recognizer r: it prints, for an
\* error one line more.
canceled_cb(r, isError) ==
    /\ r \in DOMAIN recognizers
    /\ recognizers[r].running
    /\ fan.pc \in {"idle", "done", "ignored"}
    /\ fan' = [pc |-> "ignored", rec |-> r, reason |-> "Canceled"]
    /\ UNCHANGED <<sessVars, avatarVars, tokenVars, recognizers, last>>

(* --------------------------- specifications --------------------------- *)

\* The environments: the private endpoint and token authentication, set or
\* not.
Configs == [speech_private_endpoint : BOOLEAN,
            enable_token_auth_for_speech : BOOLEAN,
            ice_server_override : {FALSE}]

\* No optional environment variable is set.
DefaultConfig == [speech_private_endpoint |-> FALSE,
                  enable_token_auth_for_speech |-> FALSE,
                  ice_server_override |-> FALSE]

\* Lines 49-52: ICE_SERVER_URL, ICE_SERVER_USERNAME and ICE_SERVER_PASSWORD
\* all set (ice_server_override), or not.
RelayConfigs == [speech_private_endpoint : {FALSE},
                 enable_token_auth_for_speech : {FALSE},
                 ice_server_override : BOOLEAN]

\* The state once the module is imported, in one of the environments.
InitIn(environments) ==
    /\ sessions = <<>>
    /\ session_listeners = <<>>
    /\ rooms = [r \in RandomCodes |-> {}]
    /\ sockets = {}
    /\ last = [op |-> "none", emits |-> <<>>]
    /\ joins = <<>>
    /\ client_contexts = <<>>
    /\ synths = <<>>
    /\ hub = [op |-> "idle"]
    /\ config \in environments
    /\ speech_token = NoneId
    /\ ice_token = NoneId
    /\ refresher = [kind \in TokenKinds |->
                       [pc |-> IF ThreadStarted(kind) THEN "fetch" ELSE "off",
                        fails |-> 0]]
    /\ lastGood = [kind \in TokenKinds |-> NoneId]
    /\ recognizers = <<>>
    /\ fan = [pc |-> "idle"]

Init == InitIn(Configs)

InitDefault == InitIn({DefaultConfig})

InitRelay == InitIn(RelayConfigs)

NextSessions ==
    \/ \E valid \in BOOLEAN : createSession(valid)
    \/ \E id \in RequestIds : getSession(id)
    \/ \E id \in RequestIds, emitRaises \in BOOLEAN : endSession(id, emitRaises)
    \/ \E sid \in Sids : handle_connect(sid)
    \/ \E sid \in Sids : handle_disconnect(sid)
    \/ \E sid \in Sids, room \in RandomCodes : handle_join(sid, room)
    \/ \E sid \in Sids, id \in RequestIds : handle_join_session(sid, id)

SpecSessions == InitDefault /\ [][NextSessions]_vars

NextTokens ==
    \/ \E o \in FetchOutcomes, t \in Tokens : refreshSpeechToken(o, t)
    \/ \E o \in FetchOutcomes, t \in Tokens : refreshIceToken(o, t)
    \/ \E kind \in TokenKinds : wake(kind)
    \/ getSpeechToken
    \/ getIceToken

SpecTokens == Init /\ [][NextTokens]_vars

\* The two threads are scheduled: a fetch returns or raises, a sleep ends.
FairTokens ==
    /\ WF_vars(\E o \in FetchOutcomes, t \in Tokens : refreshSpeechToken(o, t))
    /\ WF_vars(\E o \in FetchOutcomes, t \in Tokens : refreshIceToken(o, t))
    /\ \A kind \in TokenKinds : WF_vars(wake(kind))

NextAvatar ==
    \/ initializeClient
    \/ \E c \in ClientIds : connectAvatar(c)
    \/ \E result \in {"completed", "canceled"} : negotiate(result)
    \/ \E fires \in BOOLEAN : close(fires)
    \/ \E c \in ClientIds : disconnectAvatar(c)
    \/ \E k \in 1..MaxSynths : tts_disconnected_cb(k)
    \/ \E k \in 1..MaxSynths : provider_drop(k)
    \/ \E c \in ClientIds : getStatus(c)
    \/ \E o \in FetchOutcomes, t \in Tokens : refreshIceToken(o, t)
    \/ \E kind \in TokenKinds : wake(kind)

SpecAvatar == InitDefault /\ [][NextAvatar]_vars

SpeakResults == {"completed", "canceled", "exception"}

NextFanout ==
    \/ initializeClient
    \/ createSession(TRUE)
    \/ \E o \in FetchOutcomes, t \in Tokens : refreshIceToken(o, t)
    \/ \E c \in ClientIds, id \in RandomCodes : connectListenerAvatar(c, id)
    \/ \E result \in {"completed", "canceled"} : negotiate(result)
    \/ \E fires \in BOOLEAN : close(fires)
    \/ \E c \in ClientIds, id \in RandomCodes : startTranslation(c, id, FALSE, FALSE)
    \/ \E r \in 1..MaxRecognizers, u \in Utterances : recognized_cb(r, u)
    \/ \E result \in SpeakResults, emitRaises \in BOOLEAN : fan_out(result, emitRaises)

SpecFanout == InitDefault /\ [][NextFanout]_vars

SpecTokensFair == Init /\ [][NextTokens]_vars /\ FairTokens

\* The fan-out with listeners whose connection the provider drops.
NextListeners ==
    \/ initializeClient
    \/ createSession(TRUE)
    \/ refreshIceToken("ok", 1)
    \/ \E c \in ClientIds, id \in RandomCodes : connectListenerAvatar(c, id)
    \/ negotiate("completed")
    \/ \E fires \in BOOLEAN : close(fires)
    \/ \E k \in 1..MaxSynths : provider_drop(k)
    \/ \E k \in 1..MaxSynths : tts_disconnected_cb(k)
    \/ \E c \in ClientIds, id \in RandomCodes : startTranslation(c, id, FALSE, FALSE)
    \/ \E r \in 1..MaxRecognizers : recognized_cb(r, 1)
    \/ fan_out("completed", FALSE)

SpecListeners == InitDefault /\ [][NextListeners]_vars

NextPipeline ==
    \/ initializeClient
    \/ createSession(TRUE)
    \/ \E c \in ClientIds, id \in RequestIds, streaming \in BOOLEAN,
          raises \in BOOLEAN : startTranslation(c, id, streaming, raises)
    \/ \E c \in ClientIds, raises \in BOOLEAN : translateSpeak(c, raises)
    \/ \E c \in ClientIds, raises \in BOOLEAN : stopTranslation(c, raises)
    \/ \E c \in ClientIds, complete \in BOOLEAN, packs \in BOOLEAN :
          handle_audio_data(c, complete, packs)

SpecPipeline == InitDefault /\ [][NextPipeline]_vars

\* The recognizer's callbacks: client 1 speaks in legacy mode with its own
\* avatar, the last client in a session.
NextCallbacks ==
    \/ initializeClient
    \/ createSession(TRUE)
    \/ refreshIceToken("ok", 1)
    \/ \E c \in ClientIds : connectAvatar(c)
    \/ negotiate("completed")
    \/ disconnectAvatar(1)
    \/ close(FALSE)
    \/ \E id \in RandomCodes : startTranslation(MaxClients, id, FALSE, FALSE)
    \/ translateSpeak(1, FALSE)
    \/ \E r \in 1..MaxRecognizers, res \in FinalResults, u \in Utterances :
          on_recognized(r, res[1], res[2], u)
    \/ \E r \in 1..MaxRecognizers, isError \in BOOLEAN : canceled_cb(r, isError)
    \/ fan_out("completed", FALSE)
    \/ \E result \in SpeakResults, emitRaises \in BOOLEAN :
          legacy_speak(result, emitRaises)

SpecCallbacks == InitDefault /\ [][NextCallbacks]_vars

\* The clients' operations next to the sessions' end: one client listens
\* with an avatar and speaks into a stream, one socket joins and leaves,
\* and one session is open at a time.
NextClients ==
    \/ initializeClient /\ client_contexts = <<>>
    \/ createSession(TRUE) /\ DOMAIN sessions = {}
    \/ \E id \in RandomCodes : endSession(id, FALSE)
    \/ refreshIceToken("ok", 1)
    \/ \E id \in RandomCodes : connectListenerAvatar(1, id)
    \/ negotiate("completed")
    \/ close(FALSE)
    \/ disconnectAvatar(1)
    \/ \E id \in RandomCodes : startTranslation(1, id, TRUE, FALSE)
    \/ stopTranslation(1, FALSE)
    \/ handle_connect(1)
    \/ \E id \in RandomCodes : handle_join_session(1, id)
    \/ handle_disconnect(1)

SpecClients == InitDefault /\ [][NextClients]_vars

\* Every kind of operation around the avatar of one client: its
\* connection, the provider's events, speech, translation, a listener, and
\* one session open at a time.
NextFlag ==
    \/ initializeClient /\ client_contexts = <<>>
    \/ refreshIceToken("ok", 1)
    \/ connectAvatar(1)
    \/ \E result \in {"completed", "canceled"} : negotiate(result)
    \/ \E fires \in BOOLEAN : close(fires)
    \/ disconnectAvatar(1)
    \/ \E k \in 1..MaxSynths : provider_drop(k)
    \/ \E k \in 1..MaxSynths : tts_disconnected_cb(k)
    \/ \E result \in SpeakResults : speak(1, result)
    \/ translateSpeak(1, FALSE)
    \/ stopTranslation(1, FALSE)
    \/ createSession(TRUE) /\ DOMAIN sessions = {}
    \/ \E id \in RandomCodes : endSession(id, FALSE)
    \/ handle_connect(1)
    \/ \E id \in RandomCodes : handle_join_session(1, id)
    \/ handle_disconnect(1)

SpecFlag == InitDefault /\ [][NextFlag]_vars

\* The avatar connection with and without an ICE server of the
\* environment's.
NextRelay ==
    \/ initializeClient
    \/ \E o \in FetchOutcomes, t \in Tokens : refreshIceToken(o, t)
    \/ \E c \in ClientIds : connectAvatar(c)
    \/ \E result \in {"completed", "canceled"} : negotiate(result)
    \/ \E fires \in BOOLEAN : close(fires)
    \/ \E c \in ClientIds : disconnectAvatar(c)
    \/ getIceToken

SpecRelay == InitRelay /\ [][NextRelay]_vars

\* A session's life among the speakers: two clients start and stop, one
\* connects and disconnects an avatar, and one session is open at a time.
NextActive ==
    \/ initializeClient
    \/ createSession(TRUE) /\ DOMAIN sessions = {}
    \/ \E id \in RandomCodes : endSession(id, FALSE)
    \/ refreshIceToken("ok", 1)
    \/ connectAvatar(1)
    \/ negotiate("completed")
    \/ close(FALSE)
    \/ disconnectAvatar(1)
    \/ \E c \in ClientIds, id \in RandomCodes, raises \in BOOLEAN :
          startTranslation(c, id, FALSE, raises)
    \/ \E c \in ClientIds : stopTranslation(c, FALSE)

SpecActive == InitDefault /\ [][NextActive]_vars

(* ------------------------------ claims -------------------------------- *)

\* The emits of the latest handler that carry `event` for session `id` and
\* are delivered to connection `sid`.
EmitsTo(event, id, sid) ==
    {i \in 1..Len(last.emits) :
        /\ last.emits[i].event = event
        /\ last.emits[i].sessionId = id
        /\ sid \in last.emits[i].to}

\* C1: a createSession that succeeds returns a code that is the code of no
\* session live at that moment, leaves every live session as it was, and
\* returns six decimal digits.
C1_FreshSixDigitCode ==
    (last.op = "createSession" /\ last.status = 200) =>
        /\ last.sessionId \notin DOMAIN last.pre
        /\ \A c \in DOMAIN last.pre : c \in DOMAIN sessions /\ sessions[c] = last.pre[c]
        /\ Len(last.sessionId) = 6
        /\ \A i \in 1..Len(last.sessionId) : last.sessionId[i] \in 0..9

\* C1 witness: a session is created while another one is live.
C1_Witness ==
    /\ last.op = "createSession" /\ last.status = 200
    /\ DOMAIN last.pre # {}

\* C2: after an endSession(id) that succeeds, getSession(id) answers 404 and
\* every connection in the room of id at the call got one sessionEnded for id.
C2_EndedAndNotified ==
    (last.op = "endSession" /\ last.status = 200) =>
        /\ getSessionStatus(last.sessionId) = 404
        /\ \A sid \in last.room :
               Cardinality(EmitsTo("sessionEnded", last.sessionId, sid)) = 1
        /\ \A i \in 1..Len(last.emits) : last.emits[i].to \subseteq last.room

\* C2 witness: a session with a connection in its room has been ended.
C2_Witness ==
    /\ last.op = "endSession" /\ last.status = 200
    /\ last.room # {}

\* C4: with no leave in between, the count emitted by a joinSession that
\* succeeds is the number of distinct connections that joined the session;
\* the count a disconnect emits to a session the connection listened to is
\* one less than before, and the connection is left in no listener set.
C4_ListenerCount ==
    /\ (last.op = "joinSession" /\ last.ok /\ ~joins[last.sessionId].left) =>
           /\ Len(last.emits) = 2
           /\ \A i \in 1..Len(last.emits) :
                  last.emits[i].count = Cardinality(joins[last.sessionId].sids)
    /\ (last.op = "disconnect") =>
           /\ \A id \in DOMAIN last.pre :
                  last.sid \in last.pre[id] =>
                      \E i \in 1..Len(last.emits) :
                          /\ last.emits[i].event = "listenerCountUpdated"
                          /\ last.emits[i].sessionId = id
                          /\ last.emits[i].count = Cardinality(last.pre[id]) - 1
           /\ \A id \in DOMAIN session_listeners :
                  last.sid \notin session_listeners[id]

\* C4 witness: MaxSockets connections joined one session and one of them left.
C4_Witness ==
    /\ last.op = "disconnect"
    /\ \E id \in DOMAIN last.pre :
           /\ last.pre[id] = Sids
           /\ id \in DOMAIN joins /\ joins[id].sids = Sids

\* C6: a joinSession with no id or the id of no session changes no listener
\* set, joins no room and emits one error, to the caller alone.
C6_BadJoinNoEffect ==
    (last.op = "joinSession" /\ ~last.ok) =>
        /\ session_listeners = last.pre
        /\ rooms = last.preRooms
        /\ Len(last.emits) = 1
        /\ last.emits[1].event = "error"
        /\ last.emits[1].to = {last.sid}

\* C6 witness: a joinSession names a code that is the code of no session,
\* while another session has a listener.
C6_Witness ==
    /\ last.op = "joinSession" /\ ~last.ok
    /\ last.sessionId # NoId
    /\ \E id \in DOMAIN session_listeners : session_listeners[id] # {}

\* C7: no connection id is in the listener sets of two sessions.
C7_OneSetPerConnection ==
    \A sid \in Sids :
        Cardinality({id \in DOMAIN session_listeners :
                        sid \in session_listeners[id]}) <= 1

\* The global that holds the token of `kind`.
TokenOf(kind) == IF kind = "speech" THEN speech_token ELSE ice_token

\* C5: the token a reader sees is the value of the latest fetch that
\* succeeded; a fetch that fails neither changes nor clears it.
C5_TokenIsLatestSuccess ==
    \A kind \in TokenKinds : TokenOf(kind) = lastGood[kind]

\* C5 witness: three fetches in a row have failed since a token was fetched.
C5_Witness ==
    \E kind \in TokenKinds :
        /\ refresher[kind].fails = 3
        /\ TokenOf(kind) # NoneId

\* C10: a refresh loop that was started is, whatever its iterations ended
\* in, always again about to fetch.
C10_LoopsForever ==
    \A kind \in TokenKinds :
        (refresher[kind].pc # "off") ~> (refresher[kind].pc = "fetch")

\* C10 witness: after three failed iterations the loop is about to fetch
\* again.
C10_Witness ==
    \E kind \in TokenKinds :
        /\ refresher[kind].fails = 3
        /\ refresher[kind].pc = "fetch"

\* An open media channel to the avatar service exists for client c.
HasOpenChannel(c) ==
    \E k \in DOMAIN synths : synths[k].owner = c /\ synths[k].conn = "open"

\* A Disconnected event of a connection of client c is yet to be delivered.
EventPending(c) ==
    \E k \in DOMAIN synths : synths[k].owner = c /\ synths[k].cb

\* C8: between two handlers, a client's connected flag (what getStatus
\* reports) is true exactly if an open media channel exists for it; a
\* channel the provider closed whose Disconnected event is still to be
\* delivered is allowed for.
C8_FlagTracksChannel ==
    HubIdle =>
        \A c \in DOMAIN client_contexts :
            /\ client_contexts[c].speech_synthesizer_connected =>
                   (HasOpenChannel(c) \/ EventPending(c))
            /\ HasOpenChannel(c) =>
                   client_contexts[c].speech_synthesizer_connected

\* C9: a disconnectAvatar that has returned raised nothing and, for a known
\* client, left the connected flag false and both handles None.
C9_DisconnectClears ==
    (HubIdle /\ last.op = "disconnectAvatar") =>
        /\ last.error = "none"
        /\ Known(last.client) =>
               /\ ~client_contexts[last.client].speech_synthesizer_connected
               /\ client_contexts[last.client].speech_synthesizer = NoneId
               /\ client_contexts[last.client].speech_synthesizer_connection = NoneId

\* C3: when recognized_cb has returned for a session that had clients with
\* a live avatar connection bound to it when the utterance arrived, every
\* one of them that still has that synthesizer was spoken to, and the
\* translationResult event was emitted to the room; an emit that itself
\* raised is allowed for.
C3_FanOutReachesAll ==
    (fan.pc = "done" /\ fan.raised # "emit" /\ DOMAIN fan.K # {}) =>
        /\ \A c \in DOMAIN fan.K :
               client_contexts[c].speech_synthesizer = fan.K[c] =>
                   c \in fan.attempted
        /\ \E i \in 1..Len(fan.emits) : fan.emits[i].event = "translationResult"

\* C12: once endSession is called for a session that exists, the session
\* and its listener set are gone when it returns, whether the sessionEnded
\* emit raised or not.
C12_EndRemovesUnconditionally ==
    (last.op = "endSession" /\ last.status # 404) =>
        /\ last.sessionId \notin DOMAIN sessions
        /\ last.sessionId \notin DOMAIN session_listeners

\* C16: a getSession for an id that is the code of no live session answers
\* 404, emits nothing and leaves the sessions, the listener sets and the
\* rooms as they were.
C16_GetUnknownIsNotFound ==
    (last.op = "getSession" /\ last.sessionId \notin DOMAIN last.pre.sessions) =>
        /\ last.status = 404
        /\ last.emits = <<>>
        /\ sessions = last.pre.sessions
        /\ session_listeners = last.pre.session_listeners
        /\ rooms = last.pre.rooms

\* C16 witness: getSession is asked for a session that was created and has
\* been ended, while another session is live.
C16_Witness ==
    /\ last.op = "getSession" /\ last.status = 404
    /\ last.sessionId \in DOMAIN joins /\ joins[last.sessionId].ended
    /\ DOMAIN sessions # {}

\* C17: when a connect has returned because the negotiation was canceled,
\* the caller got a failure with the cancellation detail and the client is
\* idle again: the connected flag is false and both handles are None.
C17_CanceledConnectIsIdle ==
    (/\ HubIdle
     /\ last.op \in {"connectAvatar", "connectListenerAvatar"}
     /\ last.error = "canceled") =>
        /\ last.status = 400
        /\ ~client_contexts[last.client].speech_synthesizer_connected
        /\ client_contexts[last.client].speech_synthesizer = NoneId
        /\ client_contexts[last.client].speech_synthesizer_connection = NoneId

\* C18: between two handlers, whatever Disconnected events have been
\* delivered, no client has the connected flag true without a connection
\* handle, and a client whose current synthesizer has an open media
\* channel holds that connection and has the flag true.
C18_CallbackRaceKeepsState ==
    HubIdle =>
        \A c \in DOMAIN client_contexts :
            /\ client_contexts[c].speech_synthesizer_connected =>
                   client_contexts[c].speech_synthesizer_connection # NoneId
            /\ \A k \in DOMAIN synths :
                   (/\ synths[k].owner = c
                    /\ synths[k].conn = "open"
                    /\ client_contexts[c].speech_synthesizer = k) =>
                       /\ client_contexts[c].speech_synthesizer_connection = k
                       /\ client_contexts[c].speech_synthesizer_connected

\* C13: an audio frame for a client that is unknown or has no push audio
\* stream surfaces no error, emits nothing, writes nothing, and leaves the
\* sessions, the listener sets, the client contexts and the recognizers as
\* they were.
C13_AudioWithoutBufferIsNoOp ==
    (/\ last.op = "audioData"
     /\ \/ last.client \notin DOMAIN last.pre.client_contexts
        \/ last.pre.client_contexts[last.client].push_audio_stream = NoneId) =>
        /\ last.error = "none"
        /\ last.emits = <<>>
        /\ ~last.wrote
        /\ sessions = last.pre.sessions
        /\ session_listeners = last.pre.session_listeners
        /\ client_contexts = last.pre.client_contexts
        /\ recognizers = last.pre.recognizers

\* C13 witness: a frame has come for a known client with no push stream,
\* while another client has one.
C13_Witness ==
    /\ last.op = "audioData"
    /\ last.client \in DOMAIN client_contexts
    /\ client_contexts[last.client].push_audio_stream = NoneId
    /\ \E c \in DOMAIN client_contexts :
           client_contexts[c].push_audio_stream # NoneId

C15_StartBindsSpeaker ==
    (last.op = "startTranslation") =>
        /\ (/\ last.sessionId \in DOMAIN last.pre.sessions
            /\ last.client \in DOMAIN last.pre.client_contexts) =>
               /\ sessions[last.sessionId].active
               /\ sessions[last.sessionId].speaker_client_id = last.client
        /\ last.sessionId \notin DOMAIN last.pre.sessions =>
               /\ last.status = 404
               /\ sessions = last.pre.sessions
               /\ client_contexts = last.pre.client_contexts
               /\ recognizers = last.pre.recognizers

\* C15 witness: a known client has started translation in a session, and
\* another start named no live session.
C15_Witness ==
    /\ last.op = "startTranslation" /\ last.status = 404
    /\ last.client \in DOMAIN client_contexts
    /\ last.sessionId # NoId
    /\ \E id \in DOMAIN sessions : sessions[id].active

\* C20: every running recognizer is the one its client's recognition handle
\* holds, so a client has at most one running and stopTranslation stops it.
C20_OneStreamPerClient ==
    \A r \in DOMAIN recognizers :
        recognizers[r].running =>
            client_contexts[recognizers[r].client].translation_recognizer = r

\* C11: when recognized_cb has returned for an utterance (an emit that
\* itself raised apart), the room got one translationResult and one
\* response, both with the utterance's source text and translation, and
\* they were emitted once the loop over the clients had ended.
C11_OneResultPerUtterance ==
    (fan.pc = "done" /\ fan.raised # "emit") =>
        /\ Cardinality({i \in 1..Len(fan.emits) :
                           fan.emits[i].event = "translationResult"}) = 1
        /\ Cardinality({i \in 1..Len(fan.emits) :
                           fan.emits[i].event = "response"}) = 1
        /\ \A i \in 1..Len(fan.emits) :
               /\ fan.emits[i].sourceText = fan.recognized_text
               /\ fan.emits[i].translatedText = fan.translated_text
        /\ fan.pos > fan.size

\* C19: every synthesis attempt of the fan-out is made on a client whose
\* session id is the bound session and whose connected flag is true at
\* that moment.
C19_OnlyLiveListenersAttempted ==
    [][(fan.pc = "iterate" /\ fan'.pc = "iterate") =>
          \A c \in fan'.attempted \ fan.attempted :
              /\ client_contexts[c].session_id = fan.session_id
              /\ client_contexts[c].speech_synthesizer_connected]_vars

\* C21: between two handlers, every open media connection is the one its
\* client's connection handle holds, so a client has at most one.
C21_OneConnectionPerClient ==
    HubIdle =>
        \A k \in DOMAIN synths :
            synths[k].conn = "open" =>
                client_contexts[synths[k].owner].speech_synthesizer_connection = k

\* C22: a fan-out during which a client was registered has raised nothing
\* of its own and has gone through the whole client table to the broadcast.
C22_FanOutToleratesRegistration ==
    (fan.pc = "done" /\ Len(client_contexts) > fan.size) =>
        /\ fan.raised # "RuntimeError"
        /\ fan.pos > fan.size

\* C23: once a start and a stop of a client have both returned (the client
\* has started once), either its recognizer runs, is the one in the handle
\* and, in streaming mode, feeds from the open push stream the client
\* holds, or none runs and both handles are None.
C23_StartStopLeaveConsistent ==
    \A c \in ClientIds :
        LET ctx == client_contexts[c]
            mine == {k \in DOMAIN recognizers : recognizers[k].client = c}
            running == {k \in mine : recognizers[k].running}
        IN  (/\ HubIdle
             /\ Cardinality(mine) = 1
             /\ last.op \in {"startTranslation", "stopTranslation"}
             /\ last.client = c)
            => \/ /\ ctx.translation_recognizer # NoneId
                  /\ running = {ctx.translation_recognizer}
                  /\ \A r \in running :
                        recognizers[r].stream # "none" =>
                            /\ recognizers[r].stream = "open"
                            /\ ctx.push_audio_stream = r
               \/ /\ running = {}
                  /\ ctx.translation_recognizer = NoneId
                  /\ ctx.push_audio_stream = NoneId

\* C24: a start that answers with the provider's failure leaves the
\* sessions and the client contexts as it found them.
C24_FailedStartChangesNothing ==
    (last.op = "startTranslation" /\ last.status = 400) =>
        /\ sessions = last.pre.sessions
        /\ client_contexts = last.pre.client_contexts

\* C26: in legacy mode a result is spoken through the avatar of the client
\* that started the recognizer and through no other, and the two result
\* events go to that client's room however the synthesis ended.
C26_LegacySpeaksOwnAndBroadcasts ==
    (fan.pc = "done" /\ fan.session_id = NoId /\ fan.raised # "emit") =>
        /\ fan.attempted \subseteq {recognizers[fan.rec].client}
        /\ Len(fan.emits) = 2
        /\ fan.emits[1].event = "translationResult"
        /\ fan.emits[2].event = "response"
        /\ \A i \in 1..2 : fan.emits[i].room = recognizers[fan.rec].client

\* C27: a result that is not TranslatedSpeech or lacks the target language,
\* and a canceled event, start no synthesis and no broadcast and leave the
\* recognizers and the clients' handles alone; a synthesis or broadcast
\* starts only from a TranslatedSpeech result with the target language.
C27_OnlyTranslatedResultsAct ==
    [][ /\ \A r \in 1..MaxRecognizers, res \in FinalResults, u \in Utterances :
              (on_recognized(r, res[1], res[2], u)
                  /\ ~(res[1] = "TranslatedSpeech" /\ res[2]))
              => /\ fan'.pc = "ignored"
                 /\ UNCHANGED <<recognizers, client_contexts>>
        /\ \A r \in 1..MaxRecognizers, isError \in BOOLEAN :
              canceled_cb(r, isError)
              => /\ fan'.pc = "ignored"
                 /\ UNCHANGED <<recognizers, client_contexts>>
        /\ (fan.pc \in {"idle", "done", "ignored"} /\ fan'.pc \in {"iterate", "speak"})
              => \E r \in 1..MaxRecognizers, u \in Utterances :
                    on_recognized(r, "TranslatedSpeech", TRUE, u)
      ]_vars

\* A canceled event was handled, and the recognizer it came from still runs
\* and is still held by its client.
C27_Witness ==
    /\ fan.pc = "ignored"
    /\ fan.reason = "Canceled"
    /\ recognizers[fan.rec].running
    /\ client_contexts[recognizers[fan.rec].client].translation_recognizer = fan.rec

\* C30: every session id that has a listener set is the id of a session.
C30_ListenerSetsBelongToSessions ==
    DOMAIN session_listeners \subseteq DOMAIN sessions

\* A listener of one session, still in the room of a session that has
\* ended, asked to join the ended one: it was turned away and the ended
\* session has no listener set.
C30_Witness ==
    /\ last.op = "joinSession"
    /\ ~last.ok
    /\ last.sessionId \in DOMAIN joins
    /\ joins[last.sessionId].ended
    /\ last.sessionId \notin DOMAIN session_listeners
    /\ last.sid \in rooms[last.sessionId]
    /\ \E id \in DOMAIN session_listeners : last.sid \in session_listeners[id]

\* C25: a client's connected flag goes from true to false only in a step
\* of a disconnect (the close, or the clearing without a connection), of
\* the teardown that opens a reconnect, or of tts_disconnected_cb.
C25_FlagClearedOnlyByDisconnect ==
    [][ \A c \in DOMAIN client_contexts :
            (/\ client_contexts[c].speech_synthesizer_connected
             /\ ~client_contexts'[c].speech_synthesizer_connected)
            => \/ \E fires \in BOOLEAN : close(fires) /\ hub.client = c
               \/ disconnectAvatar(c)
               \/ connectAvatar(c)
               \/ \E id \in RequestIds : connectListenerAvatar(c, id)
               \/ \E k \in 1..MaxSynths :
                      tts_disconnected_cb(k) /\ synths[k].owner = c
      ]_vars

\* A client whose connection was closed and whose flag is false was
\* answered by the speak route, with a recognizer of its own running.
C25_Witness ==
    /\ last.op = "speak"
    /\ Known(last.client)
    /\ ~client_contexts[last.client].speech_synthesizer_connected
    /\ \E k \in DOMAIN synths :
           synths[k].owner = last.client /\ synths[k].conn = "closed"
    /\ \E r \in DOMAIN recognizers :
           recognizers[r].client = last.client /\ recognizers[r].running

\* C28: a step that removes a session is endSession's for that session; it
\* removes that session and its listener set and nothing else, and leaves
\* every client context, synthesizer and recognizer as it was.
C28_OnlyEndSessionRemovesSessions ==
    [][ \A id \in DOMAIN sessions :
            id \notin DOMAIN sessions'
            => /\ last'.op = "endSession"
               /\ last'.sessionId = id
               /\ sessions' = Del(sessions, id)
               /\ session_listeners' = Del(session_listeners, id)
               /\ UNCHANGED <<client_contexts, synths, recognizers>>
      ]_vars

\* A session was ended while a client linked to it holds a running
\* recognizer and a synthesizer: the client still has all of it.
C28_Witness ==
    /\ last.op = "endSession" /\ last.status = 200
    /\ \E c \in DOMAIN client_contexts :
           /\ client_contexts[c].session_id = last.sessionId
           /\ client_contexts[c].speech_synthesizer # NoneId
           /\ client_contexts[c].translation_recognizer # NoneId
           /\ recognizers[client_contexts[c].translation_recognizer].running

\* C29: with the environment's ICE server set, a connect is never answered
\* with the failure of reading the fetched relay token, and a synthesizer's
\* connection is configured with the environment's server; without it, with
\* the fetched token.
C29_OverrideIgnoresFetchedToken ==
    /\ (config.ice_server_override /\ last.op = "connectAvatar")
           => last.error # "TypeError"
    /\ \A k \in DOMAIN synths :
           synths[k].conn # "absent" =>
               synths[k].ice = IF config.ice_server_override
                               THEN "override" ELSE "fetched"

\* C31: a session is created not active; it becomes active, and its
\* speaker changes, only in a step of startTranslation that found it, which
\* binds the calling client; and while the session exists an active flag
\* stays true.
C31_ActiveIsMonotone ==
    [][ /\ \A id \in DOMAIN sessions' \ DOMAIN sessions :
              /\ ~sessions'[id].active
              /\ sessions'[id].speaker_client_id = NoneId
        /\ \A id \in DOMAIN sessions \cap DOMAIN sessions' :
              /\ sessions[id].active => sessions'[id].active
              /\ sessions'[id] # sessions[id]
                    => /\ last'.op = "startTranslation"
                       /\ last'.sessionId = id
                       /\ sessions'[id].active
                       /\ sessions'[id].speaker_client_id = last'.client
      ]_vars

\* A session first bound to one speaker and then to another is still
\* active with the later one after that one has stopped.
C31_Witness ==
    /\ last.op = "stopTranslation" /\ last.status = 200
    /\ \E id \in DOMAIN sessions :
           /\ sessions[id].active
           /\ sessions[id].speaker_client_id = last.client
           /\ \E r \in DOMAIN recognizers :
                  /\ recognizers[r].session_id = id
                  /\ recognizers[r].client # last.client
           /\ \E r \in DOMAIN recognizers :
                  /\ recognizers[r].session_id = id
                  /\ recognizers[r].client = last.client
                  /\ ~recognizers[r].running

\* C32: a joinSession of a connection that is a listener of the session
\* already leaves the listener sets as they were and emits the count there
\* was, and a disconnect takes the connection out of every set once: each
\* count it emits is one less than the count with the connection.
C32_JoinIsIdempotent ==
    /\ (/\ last.op = "joinSession" /\ last.ok
        /\ last.sessionId \in DOMAIN last.pre
        /\ last.sid \in last.pre[last.sessionId])
       => /\ session_listeners = last.pre
          /\ \A i \in 1..Len(last.emits) :
                last.emits[i].count = Cardinality(last.pre[last.sessionId])
    /\ last.op = "disconnect"
       => /\ \A id \in DOMAIN last.pre :
                session_listeners[id] = last.pre[id] \ {last.sid}
          /\ \A i \in 1..Len(last.emits) :
                LET id == last.emits[i].sessionId
                IN  /\ last.sid \in last.pre[id]
                    /\ last.emits[i].count = Cardinality(last.pre[id]) - 1

\* A listener of a session with two listeners joined it again.
C32_Witness ==
    /\ last.op = "joinSession" /\ last.ok
    /\ last.sessionId \in DOMAIN last.pre
    /\ last.sid \in last.pre[last.sessionId]
    /\ Cardinality(last.pre[last.sessionId]) = MaxSockets
    /\ Len(last.emits) = 2

=============================================================================
